---- MODULE Spec2Model ----
(***************************************************************************)
(* Model of lib/decoder.js: the Decoder readable stream that feeds         *)
(* "ogg_packet"s to libvorbis (packetin) and hands the decoded PCM to the  *)
(* consumer (_read).                                                       *)
(*                                                                         *)
(* A handler of the decoder runs to completion: EventEmitter.emit calls    *)
(* the listeners synchronously, so a packetin that emits 'blockin' runs    *)
(* the suspended _read inside itself, and a _read that emits 'pcmout' runs *)
(* the suspended packetin inside itself.  Each action below is one whole   *)
(* handler, nested listener calls included.  The results of the libvorbis  *)
(* calls are not decided by the decoder: every handler is a set of         *)
(* outcomes, one per combination of results the binding may return.        *)
(*                                                                         *)
(* The environment follows the protocol of the 'packet' event: the ogg     *)
(* stream emits the next packet only after done() of the previous one was  *)
(* called, and emits nothing after a packet marked e_o_s; the Readable     *)
(* base class calls _read again only after the previous _read called back. *)
(* The 'error' event has a listener (emit('error') returns).               *)
(***************************************************************************)
EXTENDS Integers, Sequences, FiniteSets, TLC

\* Number of packets the ogg stream may emit.
MaxPackets == 5
\* Number of _read calls the consumer may make.
MaxReads == 2

\* Number of chunks vorbis_synthesis_pcmout gives for one block before it
\* returns 0 (in the runs where no engine call fails).
MaxChunks == 2

\* headerin() needs to be called 3 times
HeaderPackets == 3

\* Status codes of the binding: 0 is success, the code tests only 0 !== r.
StatusResults == {0, -1}
\* vorbis_synthesis_pcmout: 0 = no more data, negative = error, otherwise
\* a Buffer (here: its length).
PcmoutResults == {-1, 0, 1}

VARIABLES
  _headerCount,   \* this._headerCount
  _blockin,       \* this._blockin
  _gotEos,        \* this._gotEos
  _stream,        \* "attached": 'packet' listener registered; "null"
  vd,             \* "null" before _synthesis_init, then "ok" or "failed"
  onPcmout,       \* once('pcmout') listeners: the suspended packets
  onBlockin,      \* once('blockin') listeners: the suspended reads
  hdrPending,     \* vorbis_synthesis_headerin calls in flight (async)
  tickQueue,      \* process.nextTick(done) callbacks not yet run
  src,            \* "ready", or "waiting" for done() of its last packet
  packetno,       \* number of packets emitted by the ogg stream
  srcEos,         \* the ogg stream has emitted its e_o_s packet
  rd,             \* "idle" or "pending": a _read has not called back yet
  reads,          \* number of _read calls made by the consumer
  crashed,        \* an exception escaped a handler
  log             \* what happened so far, in order

vars == <<_headerCount, _blockin, _gotEos, _stream, vd, onPcmout, onBlockin,
          hdrPending, tickQueue, src, packetno, srcEos, rd, reads, crashed, log>>

\* The decoder and its environment as one value, for the handlers below.
St ==
  [hc |-> _headerCount, blockin |-> _blockin, gotEos |-> _gotEos,
   stream |-> _stream, vd |-> vd, onPcmout |-> onPcmout,
   onBlockin |-> onBlockin, hdrPending |-> hdrPending,
   tickQueue |-> tickQueue, src |-> src, packetno |-> packetno,
   srcEos |-> srcEos, rd |-> rd, reads |-> reads, crashed |-> crashed,
   log |-> log]

Becomes(t) ==
  /\ _headerCount' = t.hc
  /\ _blockin' = t.blockin
  /\ _gotEos' = t.gotEos
  /\ _stream' = t.stream
  /\ vd' = t.vd
  /\ onPcmout' = t.onPcmout
  /\ onBlockin' = t.onBlockin
  /\ hdrPending' = t.hdrPending
  /\ tickQueue' = t.tickQueue
  /\ src' = t.src
  /\ packetno' = t.packetno
  /\ srcEos' = t.srcEos
  /\ rd' = t.rd
  /\ reads' = t.reads
  /\ crashed' = t.crashed
  /\ log' = t.log

\* One entry of the log: what happened, to which packet (0: none), a value
\* (a status, a header count, the number of a read), and the flags of the
\* decoder at that moment.
Ev(ev, pkt, val, blk, eos) ==
  [ev |-> ev, pkt |-> pkt, val |-> val, blk |-> blk, eos |-> eos]

\* (written with a bound x so that s is evaluated once)
Note(s, ev, pkt, val) ==
  CHOOSE t \in {[x EXCEPT !.log = Append(@, Ev(ev, pkt, val, x.blockin,
                                                x.gotEos))] : x \in {s}} :
    TRUE

Init ==
  /\ _headerCount = HeaderPackets
  /\ _blockin = FALSE
  /\ _gotEos = FALSE
  /\ _stream = "attached"
  /\ vd = "null"
  /\ onPcmout = <<>>
  /\ onBlockin = <<>>
  /\ hdrPending = <<>>
  /\ tickQueue = <<>>
  /\ src = "ready"
  /\ packetno = 0
  /\ srcEos = FALSE
  /\ rd = "idle"
  /\ reads = 0
  /\ crashed = FALSE
  /\ log = <<>>

(***************************************************************************)
(* EventEmitter: once() listeners.  emit() calls the listeners that were   *)
(* registered when it started; a once() listener unregisters itself before *)
(* it runs and runs at most once.                                          *)
(***************************************************************************)
Without(seq, x) ==
  SelectSeq(seq, LAMBDA y : y # x)

Has(seq, x) ==
  \E i \in 1..Len(seq) : seq[i] = x

(***************************************************************************)
(* Decoder.prototype._error                                                *)
(***************************************************************************)
_errorKeepsListener(s) ==
  Note(s, "error", 0, 0)

\* this._stream.removeListener(...) throws when this._stream is null.
_error(s) ==
  IF s.stream = "null"
  THEN [Note(s, "TypeError", 0, 0) EXCEPT !.crashed = TRUE]
  ELSE LET s1 == Note([s EXCEPT !.stream = "null"], "removeListener", 0, 0)
       IN  Note(s1, "error", 0, 0)

(***************************************************************************)
(* The completion signals.                                                 *)
(***************************************************************************)
\* done(err) of a packet: the ogg stream may emit its next packet.
\* err: 0 none, 1 the headerin error, 2 the error of _synthesis_init.
PacketDone(s, n, err) ==
  [Note(s, "done", n, err) EXCEPT !.src = "ready"]

NextTickDoneTwice(s, n) ==
  IF s.crashed THEN s ELSE [s EXCEPT !.tickQueue = Append(Append(@, n), n)]

\* process.nextTick(done)
NextTickDone(s, n) ==
  IF s.crashed THEN s ELSE [s EXCEPT !.tickQueue = Append(@, n)]

\* done(err, chunk) of a read: kind is "data", "eof" or "read_error"; chunk
\* is what is handed over (0: nothing), logged in the pkt field.
ReadDone(s, id, kind, chunk) ==
  [Note(s, kind, chunk, id) EXCEPT !.rd = "idle"]

(***************************************************************************)
(* Decoder.prototype.packetin and Decoder.prototype._read                  *)
(***************************************************************************)
InHeaderOffByOne(s) ==
  s.hc >= 0

\* if (this._headerCount > 0)
InHeader(s) ==
  s.hc > 0

NeedWaitForReadNever(s) ==
  FALSE

\* else if (this._blockin)
NeedWaitForRead(s) ==
  s.blockin

\* if (!this._blockin)
NeedWaitForBlock(s) ==
  ~s.blockin

SendEofAlways(s) ==
  TRUE

\* if (this._gotEos)
SendEof(s) ==
  s.gotEos

\* if (packet.e_o_s) this._gotEos = true
MarkEos(s, packet) ==
  IF packet.e_o_s THEN [s EXCEPT !.gotEos = TRUE] ELSE s

RECURSIVE packetin(_, _), _read(_, _), RunPackets(_, _), RunReads(_, _)
RECURSIVE RunPacketsOn(_, _), RunReadsOn(_, _)

EmitPcmoutMissing(s) ==
  {s}

\* this.emit('pcmout')
EmitPcmout(s) ==
  LET s1 == Note(s, "emit_pcmout", 0, 0)
  IN  RunPackets(s1, s1.onPcmout)

EmitBlockinMissing(s) ==
  {s}

\* this.emit('blockin')
EmitBlockin(s) ==
  LET s1 == Note(s, "emit_blockin", 0, 0)
  IN  RunReads(s1, s1.onBlockin)

RunPacketsOn(s, snapshot) ==
  IF snapshot = <<>> \/ s.crashed THEN {s}
  ELSE UNION { RunPacketsOn(t, Tail(snapshot)) :
                 t \in packetin(s, Head(snapshot)) }

RunPackets(s, snapshot) ==
  IF snapshot = <<>> \/ s.crashed THEN {s}
  ELSE LET packet == Head(snapshot)
       IN  IF ~Has(s.onPcmout, packet) THEN RunPackets(s, Tail(snapshot))
           ELSE UNION { RunPackets(t, Tail(snapshot)) :
                  t \in packetin([s EXCEPT !.onPcmout = Without(@, packet)],
                                 packet) }

RunReadsOn(s, snapshot) ==
  IF snapshot = <<>> \/ s.crashed THEN {s}
  ELSE UNION { RunReadsOn(t, Tail(snapshot)) :
                 t \in _read(s, Head(snapshot)) }

RunReads(s, snapshot) ==
  IF snapshot = <<>> \/ s.crashed THEN {s}
  ELSE LET id == Head(snapshot)
       IN  IF ~Has(s.onBlockin, id) THEN RunReads(s, Tail(snapshot))
           ELSE UNION { RunReads(t, Tail(snapshot)) :
                  t \in _read([s EXCEPT !.onBlockin = Without(@, id)], id) }

\* r = binding.vorbis_synthesis_blockin(vd, vb) and what follows it
SynthesisBlockin(s, packet, r) ==
  LET s1 == Note(s, "vorbis_synthesis_blockin", packet.packetno, r)
  IN  IF 0 # r
      THEN {NextTickDone(_error(s1), packet.packetno)}
      ELSE { NextTickDone(t, packet.packetno) :
               t \in EmitBlockin([s1 EXCEPT !.blockin = TRUE]) }

SynthesisWithoutReturn(s, packet, r) ==
  LET s1 == Note(s, "vorbis_synthesis", packet.packetno, r)
      s2 == IF 0 # r THEN _error(s1) ELSE s1
  IN  UNION { SynthesisBlockin(MarkEos(s2, packet), packet, r2) :
                r2 \in StatusResults }

\* r = binding.vorbis_synthesis(vb, packet) and what follows it
Synthesis(s, packet, r) ==
  LET s1 == Note(s, "vorbis_synthesis", packet.packetno, r)
  IN  IF 0 # r
      THEN {NextTickDone(_error(s1), packet.packetno)}
      ELSE UNION { SynthesisBlockin(MarkEos(s1, packet), packet, r2) :
                     r2 \in StatusResults }

packetin(s, packet) ==
  LET s1 == Note(s, "packetin", packet.packetno, s.hc)
  IN  IF InHeader(s1)
      THEN {Note([s1 EXCEPT !.hdrPending = Append(@, packet)],
                 "headerin", packet.packetno, s1.hc)}
      ELSE IF NeedWaitForRead(s1)
      THEN {Note([s1 EXCEPT !.onPcmout = Append(@, packet)],
                 "wait_pcmout", packet.packetno, 0)}
      ELSE UNION { Synthesis(s1, packet, r) : r \in StatusResults }

PcmoutKeepsBlock(s, id, b) ==
  LET s1 == Note(s, "pcmout", 0, b)
  IN  IF 0 = b
      THEN LET s3 == IF SendEof(s1)
                     THEN ReadDone(s1, id, "eof", 0)
                     ELSE Note([s1 EXCEPT !.onBlockin = Append(@, id)],
                               "wait_blockin", 0, id)
           IN  EmitPcmout(s3)
      ELSE IF b < 0
      THEN {ReadDone(s1, id, "read_error", 0)}
      ELSE {ReadDone(s1, id, "data", b)}

PcmoutDrainsOnData(s, id, b) ==
  LET s1 == Note(s, "pcmout", 0, b)
  IN  IF 0 = b
      THEN LET s2 == [s1 EXCEPT !.blockin = FALSE]
               s3 == IF SendEof(s2)
                     THEN ReadDone(s2, id, "eof", 0)
                     ELSE Note([s2 EXCEPT !.onBlockin = Append(@, id)],
                               "wait_blockin", 0, id)
           IN  EmitPcmout(s3)
      ELSE IF b < 0
      THEN {ReadDone(s1, id, "read_error", 0)}
      ELSE EmitPcmout(ReadDone([s1 EXCEPT !.blockin = FALSE], id, "data", b))

\* var b = binding.vorbis_synthesis_pcmout(vd, channels) and what follows it
Pcmout(s, id, b) ==
  LET s1 == Note(s, "pcmout", 0, b)
  IN  IF 0 = b
      THEN LET s2 == [s1 EXCEPT !.blockin = FALSE]
               s3 == IF SendEof(s2)
                     THEN ReadDone(s2, id, "eof", 0)
                     ELSE Note([s2 EXCEPT !.onBlockin = Append(@, id)],
                               "wait_blockin", 0, id)
           IN  EmitPcmout(s3)
      ELSE IF b < 0
      THEN {ReadDone(s1, id, "read_error", 0)}
      ELSE {ReadDone(s1, id, "data", b)}

_read(s, id) ==
  LET s1 == Note(s, "_read", 0, id)
  IN  IF NeedWaitForBlock(s1)
      THEN {Note([s1 EXCEPT !.onBlockin = Append(@, id)],
                 "wait_blockin", 0, id)}
      ELSE UNION { Pcmout(s1, id, b) : b \in PcmoutResults }

(***************************************************************************)
(* Decoder.prototype._synthesis_init                                       *)
(***************************************************************************)
\* The outcomes of _synthesis_init: r1 is the status of
\* vorbis_synthesis_init, r2 that of vorbis_block_init (not called when
\* r1 is not 0).  vd is "failed" when an Error is returned.
_synthesis_init(s, r1, r2) ==
  LET s1 == Note(s, "vorbis_synthesis_init", 0, r1)
  IN  IF 0 # r1 THEN [s1 EXCEPT !.vd = "failed"]
      ELSE LET s2 == Note(s1, "vorbis_block_init", 0, r2)
           IN  IF 0 # r2 THEN [s2 EXCEPT !.vd = "failed"]
               ELSE [s2 EXCEPT !.vd = "ok"]

HeaderCompleteEarly(s) ==
  s.hc <= 1

\* if (!this._headerCount)
HeaderComplete(s) ==
  s.hc = 0

\* this.emit('comments', comments); ... this.emit('format', format)
EmitCommentsFormat(s) ==
  Note(Note(s, "comments", 0, s.hc), "format", 0, s.hc)

HeaderinCallbackWithoutReturn(s, packet, r) ==
  LET s1 == Note(s, "headerin_cb", packet.packetno, r)
  IN  IF 0 # r
      THEN {PacketDone(s1, packet.packetno, 1)}
      ELSE LET s2 == Note([s1 EXCEPT !.hc = @ - 1],
                          "_headerCount--", s1.hc, s1.hc - 1)
           IN  IF HeaderComplete(s2)
               THEN { LET s3 == _synthesis_init(EmitCommentsFormat(s2), r1, r2)
                      IN  IF s3.vd = "failed"
                          THEN PacketDone(PacketDone(s3, packet.packetno, 2),
                                          packet.packetno, 0)
                          ELSE PacketDone(s3, packet.packetno, 0) :
                        r1 \in StatusResults, r2 \in StatusResults }
               ELSE {PacketDone(s2, packet.packetno, 0)}

\* The callback of binding.vorbis_synthesis_headerin, called with status r.
HeaderinCallback(s, packet, r) ==
  LET s1 == Note(s, "headerin_cb", packet.packetno, r)
  IN  IF 0 # r
      THEN {PacketDone(s1, packet.packetno, 1)}
      ELSE LET s2 == Note([s1 EXCEPT !.hc = @ - 1],
                          "_headerCount--", s1.hc, s1.hc - 1)
           IN  IF HeaderComplete(s2)
               THEN { LET s3 == _synthesis_init(EmitCommentsFormat(s2), r1, r2)
                      IN  IF s3.vd = "failed"
                          THEN PacketDone(s3, packet.packetno, 2)
                          ELSE PacketDone(s3, packet.packetno, 0) :
                        r1 \in StatusResults, r2 \in StatusResults }
               ELSE {PacketDone(s2, packet.packetno, 0)}

(***************************************************************************)
(* The actions: one per handler.                                           *)
(***************************************************************************)
\* The ogg stream emits 'packet': packetin(packet, done) runs.
Packet ==
  /\ ~crashed
  /\ _stream = "attached"
  /\ src = "ready"
  /\ ~srcEos
  /\ packetno < MaxPackets
  /\ \E e_o_s \in BOOLEAN :
       LET packet == [packetno |-> packetno + 1, e_o_s |-> e_o_s]
           s == [St EXCEPT !.packetno = packetno + 1, !.src = "waiting",
                           !.srcEos = e_o_s]
       IN  \E t \in packetin(s, packet) : Becomes(t)

\* binding.vorbis_synthesis_headerin calls back.
Headerin ==
  /\ ~crashed
  /\ hdrPending # <<>>
  /\ LET s == [St EXCEPT !.hdrPending = Tail(@)]
     IN  \E r \in StatusResults :
           \E t \in HeaderinCallback(s, Head(hdrPending), r) : Becomes(t)

\* A done scheduled with process.nextTick runs.
NextTick ==
  /\ ~crashed
  /\ tickQueue # <<>>
  /\ Becomes(PacketDone([St EXCEPT !.tickQueue = Tail(@)], Head(tickQueue), 0))

\* The consumer's Readable calls _read(bytes, done).
Read ==
  /\ ~crashed
  /\ rd = "idle"
  /\ reads < MaxReads
  /\ LET s == [St EXCEPT !.reads = reads + 1, !.rd = "pending"]
     IN  \E t \in _read(s, reads + 1) : Becomes(t)

Next ==
  \/ Packet
  \/ Headerin
  \/ NextTick
  \/ Read

Spec == Init /\ [][Next]_vars

(***************************************************************************)
(* The same handlers for a well-formed stream and an engine that does not  *)
(* fail: three header packets, then audio packets of which the last, and   *)
(* only the last, is marked e_o_s; every engine call succeeds, and a block *)
(* gives at most MaxChunks chunks before vorbis_synthesis_pcmout returns   *)
(* 0.  The consumer reads whenever its previous read was answered.         *)
(***************************************************************************)
\* no engine call in the log of t failed
NoFailure(t) ==
  \A i \in 1..Len(t.log) :
    IF t.log[i].ev = "pcmout" THEN t.log[i].val >= 0
    ELSE t.log[i].ev \in {"headerin_cb", "vorbis_synthesis_init",
                          "vorbis_block_init", "vorbis_synthesis",
                          "vorbis_synthesis_blockin"} => t.log[i].val = 0

\* no block in the log of t gave more than MaxChunks chunks
ChunkBudget(t) ==
  \A i \in 1..Len(t.log) :
    (t.log[i].ev = "pcmout" /\ t.log[i].val > 0) =>
      \E j \in 1..(i - 1) :
        /\ t.log[j].ev = "vorbis_synthesis_blockin"
        /\ Cardinality({k \in j..i : t.log[k].ev = "pcmout"}) <= MaxChunks

EngineWorks(t) ==
  NoFailure(t) /\ ChunkBudget(t)

LivePacket ==
  /\ ~crashed
  /\ _stream = "attached"
  /\ src = "ready"
  /\ ~srcEos
  /\ packetno < MaxPackets
  /\ \E e_o_s \in BOOLEAN :
       /\ packetno + 1 <= HeaderPackets => ~e_o_s
       /\ packetno + 1 = MaxPackets => e_o_s
       /\ LET packet == [packetno |-> packetno + 1, e_o_s |-> e_o_s]
               s == [St EXCEPT !.packetno = packetno + 1, !.src = "waiting",
                               !.srcEos = e_o_s]
           IN  \E t \in packetin(s, packet) : EngineWorks(t) /\ Becomes(t)

LiveHeaderin ==
  /\ ~crashed
  /\ hdrPending # <<>>
  /\ LET s == [St EXCEPT !.hdrPending = Tail(@)]
     IN  \E r \in StatusResults :
           \E t \in HeaderinCallback(s, Head(hdrPending), r) :
             EngineWorks(t) /\ Becomes(t)

LiveRead ==
  /\ ~crashed
  /\ rd = "idle"
  /\ LET s == [St EXCEPT !.reads = reads + 1, !.rd = "pending"]
     IN  \E t \in _read(s, reads + 1) : EngineWorks(t) /\ Becomes(t)

LiveNext ==
  \/ LivePacket
  \/ LiveHeaderin
  \/ NextTick
  \/ LiveRead

\* The callbacks of the binding and of process.nextTick are run by the
\* event loop; the ogg stream and the consumer go on when they can.
LiveSpec ==
  /\ Init
  /\ [][LiveNext]_vars
  /\ WF_vars(LivePacket)
  /\ WF_vars(LiveHeaderin)
  /\ WF_vars(NextTick)
  /\ WF_vars(LiveRead)

TypeOK ==
  /\ _headerCount \in 0..HeaderPackets
  /\ _blockin \in BOOLEAN
  /\ _gotEos \in BOOLEAN
  /\ _stream \in {"attached", "null"}
  /\ vd \in {"null", "ok", "failed"}
  /\ Len(onPcmout) <= 1
  /\ Len(onBlockin) <= 1
  /\ src \in {"ready", "waiting"}
  /\ rd \in {"idle", "pending"}
  /\ ~crashed

(***************************************************************************)
(* The log, as the claims read it.                                         *)
(***************************************************************************)
Idx == 1..Len(log)

Is(i, ev) == i \in Idx /\ log[i].ev = ev

Count(P(_)) == Cardinality({i \in Idx : P(i)})

\* a call of the engine's block-submit step
IsSubmit(i) == Is(i, "vorbis_synthesis")

\* a call of the engine's block-accumulate step
IsAccumulate(i) == Is(i, "vorbis_synthesis_blockin")

\* a call of the engine's pcm-extract step that returned zero
IsZeroExtract(i) == Is(i, "pcmout") /\ log[i].val = 0

\* a header packet the engine's header-ingest step accepted
IsHeaderOk(i) == Is(i, "headerin_cb") /\ log[i].val = 0

\* a header packet the engine's header-ingest step rejected
IsHeaderFail(i) == Is(i, "headerin_cb") /\ log[i].val # 0

\* the 'drained' notification of a read whose pcm-extract returned zero:
\* pcmout (0), then done(null, null) or once('blockin'), then emit('pcmout')
IsDrained(k) == Is(k, "emit_pcmout") /\ IsZeroExtract(k - 2)

\* C1: vorbis_synthesis is called only while _blockin is false; a packet
\* that arrived while _blockin was true is suspended, and when it reaches
\* vorbis_synthesis it does so after a later 'pcmout' emitted by a read whose
\* vorbis_synthesis_pcmout returned 0.
C1_Backpressure ==
  /\ \A j \in Idx : IsSubmit(j) => ~log[j].blk
  /\ \A j \in Idx : (Is(j, "packetin") /\ log[j].val <= 0 /\ log[j].blk)
                      => Is(j + 1, "wait_pcmout")
  /\ \A i \in Idx : Is(i, "wait_pcmout") =>
       \A j \in Idx : (IsSubmit(j) /\ log[j].pkt = log[i].pkt) =>
         /\ j > i
         /\ \E k \in (i + 1)..(j - 1) : IsDrained(k)

\* a suspended packet has reached vorbis_synthesis
C1_Witness ==
  \E i \in Idx : \E j \in Idx :
    /\ Is(i, "wait_pcmout")
    /\ IsSubmit(j)
    /\ log[j].pkt = log[i].pkt

\* C2: the number of vorbis_synthesis calls never exceeds the number of
\* vorbis_synthesis_pcmout calls that returned 0, plus one (failed
\* vorbis_synthesis and vorbis_synthesis_blockin calls included).
C2_Counting ==
  Count(IsSubmit) <= Count(IsZeroExtract) + 1

\* the bound is met after a second submission, with a failed engine call
C2_Witness ==
  /\ Count(IsSubmit) >= 2
  /\ Count(IsSubmit) = Count(IsZeroExtract) + 1
  /\ \E i \in Idx : (IsSubmit(i) \/ IsAccumulate(i)) /\ log[i].val # 0

\* C3: 'comments' and 'format' are emitted at most once each, 'comments'
\* right before 'format', only when _headerCount goes from 1 to 0, and
\* before the first PCM chunk is delivered.
C3_CommentsFormatOnce ==
  /\ Count(LAMBDA i : Is(i, "comments")) <= 1
  /\ Count(LAMBDA i : Is(i, "format")) <= 1
  /\ \A j \in Idx : Is(j, "format") => Is(j - 1, "comments")
  /\ \A i \in Idx : Is(i, "comments") =>
       /\ Is(i - 1, "_headerCount--")
       /\ log[i - 1].pkt = 1
       /\ log[i - 1].val = 0
       /\ Is(i + 1, "format")
  /\ \A k \in Idx : Is(k, "data") =>
       \E j \in 1..(k - 1) : Is(j, "format")

\* a PCM chunk was delivered after a header packet had been rejected
C3_Witness ==
  /\ \E k \in Idx : Is(k, "data")
  /\ \E i \in Idx : IsHeaderFail(i)
  /\ \E i \in Idx : Is(i, "comments")

\* C4: three packets have been accepted by vorbis_synthesis_headerin before
\* any vorbis_synthesis call and before any PCM chunk; once _headerCount is
\* 0 no packet is passed to vorbis_synthesis_headerin, every packet takes
\* the audio path.
C4_ThreeHeaders ==
  /\ \A j \in Idx : (IsSubmit(j) \/ Is(j, "data")) =>
       Cardinality({i \in 1..(j - 1) : IsHeaderOk(i)}) = HeaderPackets
  /\ Count(IsHeaderOk) <= HeaderPackets
  /\ \A i \in Idx : (Is(i, "_headerCount--") /\ log[i].val = 0) =>
       \A j \in (i + 1)..Len(log) :
         /\ ~Is(j, "headerin")
         /\ Is(j, "packetin") =>
              (Is(j + 1, "vorbis_synthesis") \/ Is(j + 1, "wait_pcmout"))

\* the packet after the third accepted header was passed to vorbis_synthesis
C4_Witness ==
  /\ Count(IsHeaderOk) = HeaderPackets
  /\ \E j \in Idx : IsSubmit(j) /\ log[j].pkt >= 4
  /\ \E k \in Idx : Is(k, "data")

\* C5: done(null, null) is called only by a read whose
\* vorbis_synthesis_pcmout returned 0 while _gotEos was true (set by an
\* accepted e_o_s packet), and no PCM chunk is delivered after it.
C5_EofAfterDrain ==
  \A i \in Idx : Is(i, "eof") =>
    /\ IsZeroExtract(i - 1)
    /\ log[i - 1].eos
    /\ \A j \in Idx : j > i => ~Is(j, "data")

\* the block of the e_o_s packet gave a chunk to one read, then the end to
\* the next
C5_Witness ==
  \E i \in Idx : \E j \in Idx :
    /\ i < j
    /\ Is(i, "data") /\ log[i].eos
    /\ Is(j, "eof")
    /\ log[i].val # log[j].val

\* C6: after a read was given done(null, null), every later _read call is
\* given done(null, null) too; it is given neither data nor an error, and
\* it is not left waiting.
C6_EofIdempotent ==
  \A i \in Idx : \A j \in Idx :
    (Is(i, "eof") /\ j > i /\ Is(j, "_read")) =>
      /\ \E k \in Idx : k > j /\ Is(k, "eof") /\ log[k].val = log[j].val
      /\ ~\E k \in Idx : k > j /\ log[k].val = log[j].val
                          /\ (Is(k, "wait_blockin") \/ Is(k, "data")
                              \/ Is(k, "read_error"))

\* C7: when vorbis_synthesis_headerin gives a non-zero status, done is
\* called with the error, and neither 'comments' nor 'format' is emitted
\* from then on, whatever packets follow.
C7_HeaderErrorFatal ==
  \A i \in Idx : IsHeaderFail(i) =>
    /\ Is(i + 1, "done") /\ log[i + 1].val = 1
    /\ \A j \in Idx : j > i => (~Is(j, "comments") /\ ~Is(j, "format"))

\* C8: when, after the headers and a successful _synthesis_init,
\* vorbis_synthesis_pcmout gives a negative value, the read is given the
\* error, the 'packet' listener is removed and no later packet reaches
\* vorbis_synthesis.
C8_ExtractErrorStops ==
  \A i \in Idx : (vd = "ok" /\ Is(i, "pcmout") /\ log[i].val < 0) =>
    /\ Is(i + 1, "read_error")
    /\ _stream = "null"
    /\ \A j \in Idx : j > i => ~IsSubmit(j)

\* a failed call of vorbis_synthesis or vorbis_synthesis_blockin
IsDecodeFail(i) == (IsSubmit(i) \/ IsAccumulate(i)) /\ log[i].val # 0

\* C9: when vorbis_synthesis or vorbis_synthesis_blockin gives a non-zero
\* status, the 'packet' listener is removed, 'error' is emitted exactly
\* once, and from then on _blockin is false, no packet enters packetin and
\* vorbis_synthesis, vorbis_synthesis_blockin and vorbis_synthesis_pcmout
\* are not called.
C9_DecodeErrorTeardown ==
  \A i \in Idx : IsDecodeFail(i) =>
    /\ Is(i + 1, "removeListener")
    /\ Is(i + 2, "error")
    /\ Count(LAMBDA k : Is(k, "error")) = 1
    /\ _stream = "null"
    /\ ~_blockin
    /\ \A j \in Idx : j > i =>
         /\ ~log[j].blk
         /\ ~Is(j, "packetin")
         /\ ~IsSubmit(j)
         /\ ~IsAccumulate(j)
         /\ ~Is(j, "pcmout")

\* after a failed engine call the packet's done ran and a read was made
C9_Witness ==
  \E i \in Idx : \E j \in Idx : \E k \in Idx :
    /\ IsDecodeFail(i)
    /\ j > i /\ Is(j, "done")
    /\ k > i /\ Is(k, "_read")

\* an error given to done of a packet, emitted as 'error', or given to a read
IsErrorSurfaced(i) ==
  \/ Is(i, "done") /\ log[i].val # 0
  \/ Is(i, "error")
  \/ Is(i, "read_error")

\* C10: once an error was surfaced, no PCM chunk is delivered.
C10_NoPcmAfterError ==
  \A i \in Idx : \A j \in Idx :
    (IsErrorSurfaced(i) /\ j > i) => ~Is(j, "data")

\* an error emitted as 'error' by _error, or given to a read
IsErrorRaised(i) == Is(i, "error") \/ Is(i, "read_error")

\* C11: at most one error is raised over the lifetime of the decoder, the
\* errors given to reads counted with those emitted by _error, and _error
\* is never entered again after it set this._stream to null.
C11_AtMostOneError ==
  /\ Count(IsErrorRaised) <= 1
  /\ Count(LAMBDA i : Is(i, "TypeError")) = 0
  /\ ~crashed

\* a chunk that vorbis_synthesis_pcmout produced
IsChunk(i) == Is(i, "pcmout") /\ log[i].val > 0

\* C12: packets reach vorbis_synthesis in the order of their arrival, each
\* at most once; a packet suspended on 'pcmout' is the next one to reach
\* it; every chunk vorbis_synthesis_pcmout produces is delivered at once,
\* so chunks are delivered in the order they were produced.
C12_Ordering ==
  /\ \A i \in Idx : IsSubmit(i) =>
       \A j \in (i + 1)..Len(log) : IsSubmit(j) => log[i].pkt < log[j].pkt
  /\ \A i \in Idx : Is(i, "wait_pcmout") =>
       \A j \in (i + 1)..Len(log) : IsSubmit(j) =>
         \E k \in (i + 1)..j : IsSubmit(k) /\ log[k].pkt = log[i].pkt
  /\ \A i \in Idx : IsChunk(i) =>
       Is(i + 1, "data") /\ log[i + 1].pkt = log[i].val
  /\ \A j \in Idx : Is(j, "data") => IsChunk(j - 1)

\* a suspended packet was submitted after an earlier one, and two chunks
\* were delivered
C12_Witness ==
  /\ \E i \in Idx : \E j \in Idx : \E k \in Idx :
       /\ i < j /\ j < k
       /\ IsSubmit(i)
       /\ Is(j, "wait_pcmout")
       /\ IsSubmit(k) /\ log[k].pkt = log[j].pkt
  /\ Count(LAMBDA i : Is(i, "data")) >= 2

\* C13: with the ogg stream waiting for done and the consumer waiting for
\* its read, at most one packet is suspended on 'pcmout' and at most one
\* read is suspended on 'blockin'.
C13_OneWaiter ==
  /\ Len(onPcmout) <= 1
  /\ Len(onBlockin) <= 1

\* a read is suspended again after a packet had been suspended and resumed
C13_Witness ==
  /\ Len(onBlockin) = 1
  /\ rd = "pending"
  /\ Count(LAMBDA i : Is(i, "wait_blockin")) >= 2
  /\ \E i \in Idx : Is(i, "wait_pcmout")

\* read id is given its result (data, end or error) at k
IsReadResult(k, id) ==
  /\ Is(k, "data") \/ Is(k, "eof") \/ Is(k, "read_error")
  /\ log[k].val = id

\* C14: a read that finds _blockin true and gets 0 from
\* vorbis_synthesis_pcmout sets _blockin to false and emits 'pcmout'; with
\* _gotEos it is given done(null, null), otherwise it is given nothing and
\* the same read is registered with once('blockin'): it gets a result only
\* after a later 'blockin'.
C14_ZeroExtract ==
  \A i \in Idx : IsZeroExtract(i) =>
    /\ Is(i - 1, "_read")
    /\ log[i].blk
    /\ ~log[i + 1].blk
    /\ Is(i + 2, "emit_pcmout")
    /\ ~log[i + 2].blk
    /\ log[i].eos =>
         /\ Is(i + 1, "eof")
         /\ log[i + 1].val = log[i - 1].val
    /\ ~log[i].eos =>
         /\ Is(i + 1, "wait_blockin")
         /\ log[i + 1].val = log[i - 1].val
         /\ \A k \in Idx : (k > i /\ IsReadResult(k, log[i - 1].val)) =>
              \E m \in (i + 2)..(k - 1) : Is(m, "emit_blockin")

\* one read drained a block and waited, one drained the last block
C14_Witness ==
  \E i \in Idx : \E j \in Idx :
    /\ IsZeroExtract(i) /\ ~log[i].eos
    /\ IsZeroExtract(j) /\ log[j].eos
    /\ \E k \in Idx : k > i /\ IsReadResult(k, log[i - 1].val)

\* what a positive vorbis_synthesis_pcmout leaves in the log: the chunk is
\* delivered, the flags stay, no 'pcmout' or 'blockin' is emitted
ChunkLogged ==
  \A i \in Idx : IsChunk(i) =>
    /\ log[i].blk
    /\ Is(i + 1, "data")
    /\ log[i + 1].pkt = log[i].val
    /\ log[i + 1].val = log[i - 1].val
    /\ log[i + 1].blk
    /\ log[i + 1].eos = log[i].eos
    /\ ~Is(i + 2, "emit_pcmout")
    /\ ~Is(i + 2, "emit_blockin")

\* a step that is one _read call getting a Buffer from the engine
ChunkRead ==
  /\ Len(log') = Len(log) + 3
  /\ log'[Len(log) + 1].ev = "_read"
  /\ log'[Len(log) + 2].ev = "pcmout"
  /\ log'[Len(log) + 2].val > 0

\* C15: a read that gets a positive count delivers that chunk and leaves
\* the decoder as it was: _blockin stays true, _gotEos and _headerCount are
\* unchanged, nothing is emitted and no listener is added or removed.
C15_ChunkFrame ==
  [][/\ ChunkLogged'
     /\ ChunkRead =>
          /\ _blockin /\ _blockin'
          /\ rd' = "idle"
          /\ UNCHANGED <<_headerCount, _gotEos, _stream, vd, onPcmout,
                         onBlockin, hdrPending, tickQueue>>]_vars

\* two chunks of one block were delivered, the second to a later read
C15_Witness ==
  \E i \in Idx : \E j \in Idx :
    /\ i < j
    /\ IsChunk(i) /\ IsChunk(j)
    /\ ~\E k \in i..j : Is(k, "emit_blockin")

\* vorbis_synthesis_init or vorbis_block_init gave a non-zero status
IsInitFail(i) ==
  /\ Is(i, "vorbis_synthesis_init") \/ Is(i, "vorbis_block_init")
  /\ log[i].val # 0

\* the number of times done of packet n was called
DoneCount(n) == Cardinality({k \in Idx : Is(k, "done") /\ log[k].pkt = n})

\* the number of process.nextTick(done) of packet n that did not run yet
TickCount(n) ==
  Cardinality({k \in 1..Len(tickQueue) : tickQueue[k] = n})

\* C16: when the third header packet is accepted and _synthesis_init
\* returns an Error, done of that packet is called with the error, once,
\* and never without an error.
C16_InitErrorSurfaced ==
  \A i \in Idx : IsInitFail(i) =>
    /\ Is(i + 1, "done")
    /\ log[i + 1].val = 2
    /\ DoneCount(log[i + 1].pkt) = 1
    /\ \E h \in 1..(i - 1) :
         /\ IsHeaderOk(h)
         /\ log[h].pkt = log[i + 1].pkt
         /\ Is(h + 1, "_headerCount--") /\ log[h + 1].val = 0

\* _synthesis_init failed and the ogg stream went on with the next packet
C16_Witness ==
  \E i \in Idx : \E j \in Idx :
    /\ IsInitFail(i)
    /\ j > i + 1
    /\ Is(j, "packetin")

\* C17: vorbis_synthesis and vorbis_synthesis_blockin are called only after
\* _synthesis_init succeeded, and never after an error of
\* vorbis_synthesis_headerin or of _synthesis_init was given to done.
C17_EngineAfterInit ==
  \A j \in Idx : (IsSubmit(j) \/ IsAccumulate(j)) =>
    /\ \E i \in 1..(j - 1) : Is(i, "vorbis_block_init") /\ log[i].val = 0
    /\ ~\E i \in 1..(j - 1) : IsInitFail(i) \/ IsHeaderFail(i)

\* C18: done of a packet is called at most once, and only after the packet
\* was given to vorbis_synthesis_headerin or vorbis_synthesis and the call
\* returned; for a packet suspended on 'pcmout', after its later
\* vorbis_synthesis call; for a packet whose vorbis_synthesis or
\* vorbis_synthesis_blockin failed, done is scheduled once and runs once.
C18_DoneOnce ==
  /\ \A n \in 1..packetno : TickCount(n) <= 1
  /\ \A j \in Idx : Is(j, "done") =>
       /\ TickCount(log[j].pkt) = 0
       /\ \A k \in (j + 1)..Len(log) :
            ~(Is(k, "done") /\ log[k].pkt = log[j].pkt)
  /\ \A j \in Idx : Is(j, "done") =>
       \E i \in 1..(j - 1) :
         /\ Is(i, "headerin_cb") \/ IsSubmit(i)
         /\ log[i].pkt = log[j].pkt
  /\ \A i \in Idx : Is(i, "wait_pcmout") =>
       \A j \in Idx : (Is(j, "done") /\ log[j].pkt = log[i].pkt) =>
         \E k \in (i + 1)..(j - 1) : IsSubmit(k) /\ log[k].pkt = log[i].pkt
  /\ \A i \in Idx : IsDecodeFail(i) =>
       \/ TickCount(log[i].pkt) = 1
       \/ \E j \in (i + 1)..Len(log) :
            Is(j, "done") /\ log[j].pkt = log[i].pkt

\* done ran for a packet that had been suspended and for one that failed
C18_Witness ==
  /\ \E i \in Idx : Is(i, "wait_pcmout") /\ DoneCount(log[i].pkt) = 1
  /\ \E i \in Idx : IsDecodeFail(i) /\ DoneCount(log[i].pkt) = 1

\* C19: a read is suspended on 'blockin' only while _blockin is false and a
\* packet is suspended on 'pcmout' only while _blockin is true, so a packet
\* and a read are never suspended at the same time.
C19_NoMutualWait ==
  /\ onBlockin # <<>> => ~_blockin
  /\ onPcmout # <<>> => _blockin
  /\ ~(onBlockin # <<>> /\ onPcmout # <<>>)

\* a packet is suspended after a read had been suspended and resumed
C19_Witness ==
  /\ onPcmout # <<>>
  /\ \E i \in Idx : Is(i, "wait_blockin")

\* the ogg stream has emitted its e_o_s packet and every packet it emitted
\* was given to vorbis_synthesis_headerin or vorbis_synthesis
AllSubmitted ==
  /\ srcEos
  /\ \A n \in 1..packetno :
       \E i \in Idx : (Is(i, "headerin") \/ IsSubmit(i)) /\ log[i].pkt = n

\* a read was given done(null, null)
EofDelivered ==
  \E i \in Idx : Is(i, "eof")

\* C20: for three header packets followed by audio packets that end with
\* the e_o_s packet, when no engine call fails, the ogg stream emits each
\* packet after done of the previous one and the consumer keeps reading,
\* every packet is eventually given to the engine and a read is eventually
\* given done(null, null).
C20_Liveness ==
  <>(AllSubmitted /\ EofDelivered)

\* the stream of two or more audio packets was decoded to its end, one of
\* its packets having waited for a read
C20_Witness ==
  /\ AllSubmitted
  /\ EofDelivered
  /\ packetno > HeaderPackets + 1
  /\ \E i \in Idx : Is(i, "wait_pcmout")
  /\ \E i \in Idx : Is(i, "data")

====
